---- MODULE Spec2Model ----
(***************************************************************************)
(* django-turbo-response: the response classes of response.py and the view *)
(* mixins of mixins.py, as a state machine over one handler (view)         *)
(* instance and the object returned by its most recent call.               *)
(*                                                                         *)
(* Python values: str as TLA+ strings, dict and **kwargs as functions      *)
(* whose domain is the set of keys present, exceptions as records          *)
(* [kind |-> <exception class>, msg |-> <message>].                        *)
(*                                                                         *)
(* Record constructors list their fields in the order TLC keeps them (the  *)
(* order in which the names first occur in this module), and dicts are     *)
(* merged by DictUpdate, so that no value is reordered while several       *)
(* workers hold it.                                                        *)
(***************************************************************************)
EXTENDS Integers, Sequences, FiniteSets, TLC

\* Python's None. No str the model draws equals it.
None == "<None>"

\* The empty dict / no keyword arguments.
Empty == [k \in {} |-> None]

\* Python's {**d, **e}, and f(**d, **e) for disjoint keys: the keys of both, e's
\* value where both have one.
DictUpdate(d, e) ==
  [k \in DOMAIN d \cup DOMAIN e |-> IF k \in DOMAIN e THEN e[k] ELSE d[k]]

(***************************************************************************)
(* Bounds and the inputs the model draws.                                  *)
(***************************************************************************)
\* Body retrievals (rendered_content evaluations) followed per response.
MaxRetrievals == 2

\* renderers.Action: the enumeration's members (spec section 3).
Action ==
  {"Action.APPEND", "Action.PREPEND", "Action.REPLACE", "Action.UPDATE",
   "Action.REMOVE", "Action.BEFORE", "Action.AFTER"}

\* Action.value: each member's string representation.
ActionValue(action) ==
  CASE action = "Action.APPEND"  -> "append"
    [] action = "Action.PREPEND" -> "prepend"
    [] action = "Action.REPLACE" -> "replace"
    [] action = "Action.UPDATE"  -> "update"
    [] action = "Action.REMOVE"  -> "remove"
    [] action = "Action.BEFORE"  -> "before"
    [] action = "Action.AFTER"   -> "after"

\* The members the handler and the callers of the model use.
ActionsUsed == {"Action.APPEND", "Action.REPLACE", "Action.REMOVE"}
Targets == {"msg-1"}
DomIds == {"card-7"}
\* get_response_content(): the default of both plain mixins.
get_response_content == ""
\* What self.get_response_content() may return: the default, or an override's value.
ResponseContents == {get_response_content, "<p>hi</p>"}
\* What the template engine may return for a render.
TemplateOutputs == {"<span>ok</span>", "<div>x</div>"}
\* Caller-supplied template contexts, one of them holding every reserved key.
Contexts ==
  { Empty,
    ("x" :> 1),
    ("turbo_stream_action" :> "evil" @@ "turbo_stream_target" :> "evil"
       @@ "turbo_frame_dom_id" :> "evil" @@ "x" :> 1
       @@ "is_turbo_stream" :> FALSE @@ "is_turbo_frame" :> FALSE) }
\* Extra keyword options a caller passes on to the response.
ResponseKwargs ==
  { Empty,
    ("status" :> 201),
    ("content_type" :> "text/plain"),
    ("status" :> 201 @@ "content_type" :> "text/plain") }
\* Responses the wrapped form_invalid of the host view may return.
FormStatusCodes == {200, 400, 422}
FormBodies == {"<form>bad</form>", ""}
FormHeaders == {("Content-Type" :> "text/html; charset=utf-8"),
                ("Content-Type" :> "text/html; charset=utf-8" @@ "X-Frame-Options" :> "DENY")}

\* The host view's collaborators: self.request, what its own get_template_names()
\* returns, template_engine.
request == "request"
HostTemplateNames == <<"detail.html", "base.html">>
template_engine == "engine"
\* How the handler class is composed. The mixins derive the Supports* protocol
\* classes, whose method bodies are "..." and return None. "protocol_stub": the
\* mixin precedes a host that does not derive the protocols (class V(Mixin, Host)),
\* so self.get_template_names() and super().form_invalid(form) find the stubs.
\* "host": they find the host's methods (the handler defines them itself, or the
\* host stands between the mixin and the protocol class).
MROs == {"protocol_stub", "host"}

VARIABLES
  mro,                   \* the composition of the handler's class
  turbo_stream_action,   \* the handler's class/instance attribute
  turbo_stream_target,   \* the handler's class/instance attribute
  turbo_frame_dom_id,    \* the handler's class/instance attribute
  call,                  \* the most recent constructing call and its inputs
  result,                \* what that call returned or raised
  trace,                 \* the collaborator calls the most recent operation made, in order
  wrapper_calls,         \* render_turbo_stream/render_turbo_frame calls on behalf of result
  template_renders,      \* template renders on behalf of result
  accesses,              \* rendered_content evaluations on result
  template_out,          \* what the template engine returned last
  body,                  \* what rendered_content returned last
  raised                 \* the exception class the last body retrieval raised, if any

vars == <<mro, turbo_stream_action, turbo_stream_target, turbo_frame_dom_id, call, result,
          trace, wrapper_calls, template_renders, accesses, template_out, body, raised>>
config == <<turbo_stream_action, turbo_stream_target, turbo_frame_dom_id>>

(***************************************************************************)
(* utils.render_turbo_stream / render_turbo_frame: the markup wrapper.     *)
(* Targets and dom ids of the model hold no character that needs           *)
(* attribute escaping; content goes in verbatim.                           *)
(***************************************************************************)
\* Python's text form of a value put into markup.
Str(v) == IF v = None THEN "None" ELSE v

render_turbo_stream(action, target, content) ==
  "<turbo-stream action=\"" \o ActionValue(action) \o "\" target=\"" \o Str(target)
    \o "\">" \o content \o "</turbo-stream>"

render_turbo_frame(dom_id, content) ==
  "<turbo-frame id=\"" \o Str(dom_id) \o "\">" \o content \o "</turbo-frame>"

(***************************************************************************)
(* Results of a call: the value returned or the exception raised, with the *)
(* collaborator calls made on the way, in order.                           *)
(***************************************************************************)
Ret(v, t) == [trace |-> t, value |-> v]
Raise(kind, msg) == [kind |-> kind, msg |-> msg]

ResponseKinds ==
  {"TurboStreamResponse", "TurboStreamTemplateResponse", "TurboStreamStreamingResponse",
   "TurboFrameResponse", "TurboFrameTemplateResponse"}
StreamKinds ==
  {"TurboStreamResponse", "TurboStreamTemplateResponse", "TurboStreamStreamingResponse"}
FrameKinds == {"TurboFrameResponse", "TurboFrameTemplateResponse"}
TemplateKinds == {"TurboStreamTemplateResponse", "TurboFrameTemplateResponse"}
ErrorKinds == {"ValueError", "ImproperlyConfigured", "TypeError", "AttributeError"}

(***************************************************************************)
(* response.py                                                             *)
(***************************************************************************)
TURBO_STREAM_CONTENT_TYPE == "text/html; turbo-stream; charset=utf-8"

\* The mutation of TurboStreamResponseMixin_init in which a caller's content_type wins.
TurboStreamResponseMixin_init_caller_wins(kwargs) ==
  [kind |-> "ok",
   kwargs |-> DictUpdate([content_type |-> TURBO_STREAM_CONTENT_TYPE], kwargs)]

\* TurboStreamResponseMixin.__init__: the keyword arguments handed to the base
\* response; content_type given twice is Python's TypeError.
TurboStreamResponseMixin_init(kwargs) ==
  IF "content_type" \in DOMAIN kwargs
  THEN Raise("TypeError", "got multiple values for keyword argument 'content_type'")
  ELSE [kind |-> "ok",
        kwargs |-> DictUpdate(kwargs, [content_type |-> TURBO_STREAM_CONTENT_TYPE])]

TurboStreamStreamingResponse(streaming_content, kwargs) ==
  LET base == TurboStreamResponseMixin_init(kwargs) IN
  IF base.kind = "TypeError" THEN Ret(base, <<>>)
  ELSE Ret([kind |-> "TurboStreamStreamingResponse",
            streaming_content |-> streaming_content,
            base_kwargs |-> base.kwargs], <<>>)

TurboStreamResponse(content, action, target, kwargs) ==
  LET wrapped == render_turbo_stream(action, target, content)
      base == TurboStreamResponseMixin_init(kwargs) IN
  IF base.kind = "TypeError" THEN Ret(base, <<"render_turbo_stream">>)
  ELSE Ret([content |-> wrapped, kind |-> "TurboStreamResponse",
            base_kwargs |-> base.kwargs], <<"render_turbo_stream">>)

\* The mutation of StreamContext in which the caller's keys are laid over the core's.
StreamContext_caller_wins(context, action, target) ==
  DictUpdate([turbo_stream_action |-> ActionValue(action),
              turbo_stream_target |-> target,
              is_turbo_stream |-> TRUE], context)

\* The dict display of TurboStreamTemplateResponse.__init__: later keys win.
StreamContext(context, action, target) ==
  DictUpdate(context, [turbo_stream_action |-> ActionValue(action),
                       turbo_stream_target |-> target,
                       is_turbo_stream |-> TRUE])

TurboStreamTemplateResponse(req, template, context, action, target, kwargs) ==
  IF action = None
  THEN Ret(Raise("AttributeError", "'NoneType' object has no attribute 'value'"), <<>>)
  ELSE
    LET base == TurboStreamResponseMixin_init(kwargs) IN
    IF base.kind = "TypeError" THEN Ret(base, <<>>)
    ELSE Ret([request |-> req, content |-> "",
              kind |-> "TurboStreamTemplateResponse",
              base_kwargs |-> base.kwargs,
              template |-> template,
              context_data |-> StreamContext(context, action, target),
              _target |-> target, _action |-> action, _dom_id |-> None,
              is_rendered |-> FALSE], <<>>)

TurboFrameResponse(content, dom_id, kwargs) ==
  Ret([content |-> render_turbo_frame(dom_id, content), kind |-> "TurboFrameResponse",
       base_kwargs |-> kwargs], <<"render_turbo_frame">>)

\* The mutation of FrameContext in which the caller's keys are laid over the core's.
FrameContext_caller_wins(context, dom_id) ==
  DictUpdate([turbo_frame_dom_id |-> dom_id, is_turbo_frame |-> TRUE], context)

\* The dict display of TurboFrameTemplateResponse.__init__: later keys win.
FrameContext(context, dom_id) ==
  DictUpdate(context, [turbo_frame_dom_id |-> dom_id, is_turbo_frame |-> TRUE])

TurboFrameTemplateResponse(req, template, context, dom_id, kwargs) ==
  Ret([request |-> req, content |-> "",
       kind |-> "TurboFrameTemplateResponse",
       base_kwargs |-> kwargs,
       template |-> template,
       context_data |-> FrameContext(context, dom_id),
       _target |-> None, _action |-> None, _dom_id |-> dom_id,
       is_rendered |-> FALSE], <<>>)

\* The mutation of the rendered_content properties that returns the template's
\* output as it is.
TurboStreamTemplateResponse_rendered_content_unwrapped(self, rendered) ==
  Ret(rendered, <<"super().rendered_content">>)

\* TurboStreamTemplateResponse.rendered_content, given what the template rendered.
TurboStreamTemplateResponse_rendered_content(self, rendered) ==
  Ret(render_turbo_stream(self._action, self._target, rendered),
      <<"super().rendered_content", "render_turbo_stream">>)

\* TurboFrameTemplateResponse.rendered_content, given what the template rendered.
TurboFrameTemplateResponse_rendered_content(self, rendered) ==
  Ret(render_turbo_frame(self._dom_id, rendered),
      <<"super().rendered_content", "render_turbo_frame">>)

\* super().rendered_content, the framework's template response: the template named
\* by self.template is resolved and rendered, the engine returning out. A template of
\* None resolves to None, and None has no render: Python's AttributeError.
super_rendered_content(self, out) ==
  IF self.template = None
  THEN Raise("AttributeError", "'NoneType' object has no attribute 'render'")
  ELSE [value |-> out, kind |-> "str"]

\* The rendered_content property of a template response. super().rendered_content
\* is an argument of the wrapper call: when it raises, the wrapper is not called.
rendered_content(self, out) ==
  LET super == super_rendered_content(self, out) IN
  IF super.kind \in ErrorKinds
  THEN Ret(super, <<"super().rendered_content">>)
  ELSE LET r == IF self.kind = "TurboStreamTemplateResponse"
                THEN TurboStreamTemplateResponse_rendered_content(self, super.value)
                ELSE TurboFrameTemplateResponse_rendered_content(self, super.value)
       IN Ret([value |-> r.value, kind |-> "str"], r.trace)

(***************************************************************************)
(* mixins.py: the accessors and the render methods, on the handler's       *)
(* attributes as they are at the call.                                     *)
(***************************************************************************)
get_turbo_stream_action == turbo_stream_action
get_turbo_stream_target == turbo_stream_target
get_turbo_frame_dom_id == turbo_frame_dom_id
\* self.get_template_names(): SupportsTemplateNames' stub or the host's method.
get_template_names == IF mro = "protocol_stub" THEN None ELSE HostTemplateNames
get_turbo_stream_template_names == get_template_names

\* The mutation of render_turbo_stream_response that lets an unset target through.
render_turbo_stream_response_no_target_check(content, response_kwargs) ==
  LET action == get_turbo_stream_action
      target == get_turbo_stream_target IN
  IF action = None THEN Ret(Raise("ValueError", "action must be specified"), <<>>)
  ELSE TurboStreamResponse(content, action, target, response_kwargs)

\* TurboStreamResponseMixin.render_turbo_stream_response; content is what
\* self.get_response_content() returns.
render_turbo_stream_response(content, response_kwargs) ==
  LET action == get_turbo_stream_action
      target == get_turbo_stream_target IN
  IF action = None THEN Ret(Raise("ValueError", "action must be specified"), <<>>)
  ELSE IF target = None THEN Ret(Raise("ValueError", "target must be specified"), <<>>)
  ELSE TurboStreamResponse(content, action, target, response_kwargs)

\* The mutation of render_turbo_stream_template_response that raises ValueError.
render_turbo_stream_template_response_value_error(context, response_kwargs) ==
  LET target == get_turbo_stream_target
      action == get_turbo_stream_action IN
  IF target = None THEN Ret(Raise("ValueError", "target is None"), <<>>)
  ELSE IF action = None THEN Ret(Raise("ValueError", "action is None"), <<>>)
  ELSE TurboStreamTemplateResponse(request, get_turbo_stream_template_names, context,
                                   action, target, [using |-> template_engine])

\* TurboStreamTemplateResponseMixin.render_turbo_stream_template_response:
\* response_kwargs is accepted and not passed on.
render_turbo_stream_template_response(context, response_kwargs) ==
  LET target == get_turbo_stream_target
      action == get_turbo_stream_action IN
  IF target = None THEN Ret(Raise("ImproperlyConfigured", "target is None"), <<>>)
  ELSE IF action = None THEN Ret(Raise("ImproperlyConfigured", "action is None"), <<>>)
  ELSE TurboStreamTemplateResponse(request, get_turbo_stream_template_names, context,
                                   action, target, [using |-> template_engine])

UNPROCESSABLE_ENTITY == 422

\* SupportsFormInvalid.form_invalid: the body is "...", the call returns None.
SupportsFormInvalid_form_invalid == [kind |-> "NoneType"]

\* super().form_invalid(form) in TurboFormMixin, the host's form_invalid returning
\* host_response where it is the one found.
super_form_invalid(host_response) ==
  IF mro = "protocol_stub" THEN SupportsFormInvalid_form_invalid ELSE host_response

\* TurboFormMixin.form_invalid, given what super().form_invalid(form) returns;
\* setting status_code on None is Python's AttributeError.
form_invalid(response) ==
  IF response.kind = "NoneType"
  THEN Ret(Raise("AttributeError", "'NoneType' object has no attribute 'status_code'"),
           <<"super().form_invalid">>)
  ELSE Ret([response EXCEPT !.status_code = UNPROCESSABLE_ENTITY],
           <<"super().form_invalid", "response.status_code = 422">>)

\* TurboFrameResponseMixin.render_turbo_frame_response.
render_turbo_frame_response(content, response_kwargs) ==
  LET dom_id == get_turbo_frame_dom_id IN
  IF dom_id = None THEN Ret(Raise("ValueError", "dom_id must be specified"), <<>>)
  ELSE TurboFrameResponse(content, dom_id, response_kwargs)

\* TurboFrameTemplateResponseMixin.render_turbo_frame_response: the dom id goes to
\* the response unchecked.
template_render_turbo_frame_response(context, response_kwargs) ==
  TurboFrameTemplateResponse(request, get_template_names, context, get_turbo_frame_dom_id,
                             DictUpdate([using |-> template_engine], response_kwargs))

(***************************************************************************)
(* The state machine.                                                      *)
(***************************************************************************)
Wrappers == {"render_turbo_stream", "render_turbo_frame"}
CountOf(S, t) == Cardinality({i \in DOMAIN t : t[i] \in S})

NoCall ==
  [action |-> None, target |-> None, content |-> None, dom_id |-> None,
   kwargs |-> Empty, wrapped |-> Empty, context |-> Empty, op |-> "none"]

\* A handler class as written: nothing configured, nothing called.
Init ==
  /\ mro \in MROs
  /\ turbo_stream_action = None
  /\ turbo_stream_target = None
  /\ turbo_frame_dom_id = None
  /\ call = NoCall
  /\ result = [kind |-> "none"]
  /\ trace = <<>>
  /\ wrapper_calls = 0
  /\ template_renders = 0
  /\ accesses = 0
  /\ template_out = None
  /\ body = None
  /\ raised = None

\* A call c that ended as r: the object it returned starts its life.
Returned(c, r) ==
  /\ call' = c
  /\ result' = r.value
  /\ trace' = r.trace
  /\ wrapper_calls' = CountOf(Wrappers, r.trace)
  /\ template_renders' = 0
  /\ accesses' = 0
  /\ template_out' = None
  /\ body' = None
  /\ raised' = None
  /\ UNCHANGED <<mro, config>>

\* The handler (a subclass, or code of the view) sets the three attributes.
Configure ==
  \E a \in ActionsUsed \cup {None}, t \in Targets \cup {None}, d \in DomIds \cup {None} :
    /\ turbo_stream_action' = a
    /\ turbo_stream_target' = t
    /\ turbo_frame_dom_id' = d
    /\ UNCHANGED <<mro, call, result, trace, wrapper_calls, template_renders, accesses,
                   template_out, body, raised>>

Call_render_turbo_stream_response ==
  \E content \in ResponseContents, kw \in ResponseKwargs :
    Returned([NoCall EXCEPT !.op = "render_turbo_stream_response",
                            !.action = get_turbo_stream_action,
                            !.target = get_turbo_stream_target,
                            !.content = content, !.kwargs = kw],
             render_turbo_stream_response(content, kw))

Call_render_turbo_stream_template_response ==
  \E context \in Contexts, kw \in ResponseKwargs :
    Returned([NoCall EXCEPT !.op = "render_turbo_stream_template_response",
                            !.action = get_turbo_stream_action,
                            !.target = get_turbo_stream_target,
                            !.context = context, !.kwargs = kw],
             render_turbo_stream_template_response(context, kw))

Call_render_turbo_frame_response ==
  \E content \in ResponseContents, kw \in ResponseKwargs :
    Returned([NoCall EXCEPT !.op = "render_turbo_frame_response",
                            !.dom_id = get_turbo_frame_dom_id,
                            !.content = content, !.kwargs = kw],
             render_turbo_frame_response(content, kw))

Call_template_render_turbo_frame_response ==
  \E context \in Contexts, kw \in ResponseKwargs :
    Returned([NoCall EXCEPT !.op = "template_render_turbo_frame_response",
                            !.dom_id = get_turbo_frame_dom_id,
                            !.context = context, !.kwargs = kw],
             template_render_turbo_frame_response(context, kw))

Call_form_invalid ==
  \E status \in FormStatusCodes, content \in FormBodies, headers \in FormHeaders :
    LET host_response == [content |-> content, kind |-> "HttpResponse",
                          status_code |-> status, headers |-> headers]
        response == super_form_invalid(host_response) IN
    Returned([NoCall EXCEPT !.op = "form_invalid", !.wrapped = response],
             form_invalid(response))

\* The response classes constructed by other code than the mixins.
New_TurboStreamResponse ==
  \E content \in ResponseContents, a \in ActionsUsed, t \in Targets, kw \in ResponseKwargs :
    Returned([NoCall EXCEPT !.op = "TurboStreamResponse", !.action = a, !.target = t,
                            !.content = content, !.kwargs = kw],
             TurboStreamResponse(content, a, t, kw))

New_TurboStreamStreamingResponse ==
  \E content \in ResponseContents, kw \in ResponseKwargs :
    Returned([NoCall EXCEPT !.op = "TurboStreamStreamingResponse",
                            !.content = content, !.kwargs = kw],
             TurboStreamStreamingResponse(content, kw))

New_TurboStreamTemplateResponse ==
  \E context \in Contexts, a \in ActionsUsed, t \in Targets, kw \in ResponseKwargs :
    Returned([NoCall EXCEPT !.op = "TurboStreamTemplateResponse", !.action = a,
                            !.target = t, !.context = context, !.kwargs = kw],
             TurboStreamTemplateResponse(request, HostTemplateNames, context, a, t, kw))

New_TurboFrameResponse ==
  \E content \in ResponseContents, d \in DomIds, kw \in ResponseKwargs :
    Returned([NoCall EXCEPT !.op = "TurboFrameResponse", !.dom_id = d,
                            !.content = content, !.kwargs = kw],
             TurboFrameResponse(content, d, kw))

New_TurboFrameTemplateResponse ==
  \E context \in Contexts, d \in DomIds, kw \in ResponseKwargs :
    Returned([NoCall EXCEPT !.op = "TurboFrameTemplateResponse", !.dom_id = d,
                            !.context = context, !.kwargs = kw],
             TurboFrameTemplateResponse(request, HostTemplateNames, context, d, kw))

\* The mutation of EvalRenderedContent that keeps the first body and returns it again.
EvalRenderedContent_memoized(out) ==
  IF accesses = 0
  THEN LET r == rendered_content(result, out) IN
       /\ IF r.value.kind \in ErrorKinds
          THEN raised' = r.value.kind /\ body' = body
          ELSE raised' = None /\ body' = r.value.value
       /\ trace' = r.trace
       /\ template_out' = out
       /\ template_renders' = template_renders + CountOf({"super().rendered_content"}, r.trace)
       /\ wrapper_calls' = wrapper_calls + CountOf(Wrappers, r.trace)
       /\ accesses' = accesses + 1
  ELSE /\ trace' = <<>>
       /\ accesses' = accesses + 1
       /\ UNCHANGED <<body, raised, template_out, template_renders, wrapper_calls>>

\* One evaluation of the rendered_content property of result, the template engine
\* returning out: the template is rendered, then its output is wrapped; an exception
\* leaves no body.
EvalRenderedContent(out) ==
  LET r == rendered_content(result, out) IN
  /\ IF r.value.kind \in ErrorKinds
     THEN raised' = r.value.kind /\ body' = body
     ELSE raised' = None /\ body' = r.value.value
  /\ trace' = r.trace
  /\ template_out' = out
  /\ template_renders' = template_renders + CountOf({"super().rendered_content"}, r.trace)
  /\ wrapper_calls' = wrapper_calls + CountOf(Wrappers, r.trace)
  /\ accesses' = accesses + 1

\* Code reads response.rendered_content.
Get_rendered_content ==
  /\ result.kind \in TemplateKinds
  /\ accesses < MaxRetrievals
  /\ \E out \in TemplateOutputs : EvalRenderedContent(out)
  /\ UNCHANGED <<mro, config, call, result>>

\* The framework's render(): the body is taken from rendered_content and stored,
\* unless the response is rendered already; an exception of rendered_content
\* leaves the response as it was.
Render ==
  /\ result.kind \in TemplateKinds
  /\ \/ /\ ~result.is_rendered
        /\ accesses < MaxRetrievals
        /\ \E out \in TemplateOutputs :
             /\ EvalRenderedContent(out)
             /\ result' = IF raised' = None
                          THEN [result EXCEPT !.content = body', !.is_rendered = TRUE]
                          ELSE result
        /\ UNCHANGED <<mro, config, call>>
     \/ /\ result.is_rendered
        /\ trace' = <<>>
        /\ UNCHANGED <<mro, config, call, result, wrapper_calls, template_renders,
                       accesses, template_out, body, raised>>

Next ==
  \/ Configure
  \/ Call_render_turbo_stream_response
  \/ Call_render_turbo_stream_template_response
  \/ Call_render_turbo_frame_response
  \/ Call_template_render_turbo_frame_response
  \/ Call_form_invalid
  \/ New_TurboStreamResponse
  \/ New_TurboStreamStreamingResponse
  \/ New_TurboStreamTemplateResponse
  \/ New_TurboFrameResponse
  \/ New_TurboFrameTemplateResponse
  \/ Get_rendered_content
  \/ Render

Spec == Init /\ [][Next]_vars

(***************************************************************************)
(* Properties.                                                             *)
(***************************************************************************)
MixinRenderOps ==
  {"render_turbo_stream_response", "render_turbo_stream_template_response",
   "render_turbo_frame_response", "template_render_turbo_frame_response"}
StreamReserved == {"turbo_stream_action", "turbo_stream_target", "is_turbo_stream"}
FrameReserved == {"turbo_frame_dom_id", "is_turbo_frame"}

\* The most recent call was a plain render method with an accessor unset.
PlainCallUnset ==
  \/ /\ call.op = "render_turbo_stream_response"
     /\ (call.action = None \/ call.target = None)
  \/ /\ call.op = "render_turbo_frame_response"
     /\ call.dom_id = None

\* C1: a plain render_turbo_stream_response with action or target unset, and a plain
\* render_turbo_frame_response with the dom id unset, raise ValueError at once: no
\* response is constructed, the markup wrapper is not invoked, nothing is defaulted.
C1_PlainUnsetRaisesValueError ==
  PlainCallUnset =>
    /\ result.kind = "ValueError"
    /\ result.kind \notin ResponseKinds
    /\ wrapper_calls = 0
    /\ trace = <<>>
    /\ body = None

C1_Witness ==
  /\ call.op = "render_turbo_stream_response"
  /\ call.action = "Action.REPLACE"
  /\ call.target = None
  /\ result = [kind |-> "ValueError", msg |-> "target must be specified"]

\* C2: render_turbo_stream_template_response with action or target unset raises
\* ImproperlyConfigured, not the ValueError the plain method raises for the same
\* handler, and no TurboStreamTemplateResponse is constructed.
C2_TemplateUnsetRaisesImproperlyConfigured ==
  /\ (/\ call.op = "render_turbo_stream_template_response"
      /\ (call.action = None \/ call.target = None))
     => /\ result.kind = "ImproperlyConfigured"
        /\ DOMAIN result = {"kind", "msg"}
        /\ trace = <<>>
        /\ wrapper_calls = 0
  /\ (turbo_stream_action = None \/ turbo_stream_target = None)
     => \A context \in Contexts, kw \in ResponseKwargs, content \in ResponseContents :
          /\ render_turbo_stream_template_response(context, kw).value.kind
               = "ImproperlyConfigured"
          /\ render_turbo_stream_response(content, kw).value.kind = "ValueError"

C2_Witness ==
  /\ call.op = "render_turbo_stream_template_response"
  /\ call.action = None
  /\ call.target = "msg-1"
  /\ result = [kind |-> "ImproperlyConfigured", msg |-> "action is None"]

\* C3: render_turbo_frame_response of the frame-template mixin with the dom id unset
\* raises ImproperlyConfigured, so that no TurboFrameTemplateResponse with an unset
\* dom id exists and no context key turbo_frame_dom_id is unset.
C3_FrameTemplateUnsetRaises ==
  /\ (call.op = "template_render_turbo_frame_response" /\ call.dom_id = None)
       => result.kind = "ImproperlyConfigured"
  /\ result.kind = "TurboFrameTemplateResponse"
       => /\ result._dom_id # None
          /\ result.context_data["turbo_frame_dom_id"] # None

\* C4: the context of a template response is the caller's context overlaid with the
\* reserved keys. Their values are those of the action, target or dom id the wrapper
\* will use, the core's value wins over a caller's, and every other key is kept.
C4_ReservedContextKeys ==
  /\ result.kind = "TurboStreamTemplateResponse" =>
       /\ DOMAIN result.context_data = DOMAIN call.context \cup StreamReserved
       /\ result.context_data["turbo_stream_action"] = ActionValue(result._action)
       /\ result.context_data["turbo_stream_target"] = result._target
       /\ result.context_data["is_turbo_stream"] = TRUE
       /\ result._action = call.action
       /\ result._target = call.target
       /\ \A k \in DOMAIN call.context \ StreamReserved :
            result.context_data[k] = call.context[k]
  /\ result.kind = "TurboFrameTemplateResponse" =>
       /\ DOMAIN result.context_data = DOMAIN call.context \cup FrameReserved
       /\ result.context_data["turbo_frame_dom_id"] = result._dom_id
       /\ result.context_data["is_turbo_frame"] = TRUE
       /\ result._dom_id = call.dom_id
       /\ \A k \in DOMAIN call.context \ FrameReserved :
            result.context_data[k] = call.context[k]

C4_Witness ==
  /\ result.kind = "TurboStreamTemplateResponse"
  /\ "turbo_stream_target" \in DOMAIN call.context
  /\ call.context["turbo_stream_target"] = "evil"
  /\ call.context["x"] = 1
  /\ result.context_data["turbo_stream_target"] = "msg-1"
  /\ result.context_data["turbo_stream_action"] = "replace"
  /\ result.context_data["x"] = 1

\* C5: form_invalid returns the wrapped form_invalid's response with status code 422,
\* whatever its status was, body and headers as they were, the status being set
\* after the wrapped call returned.
C5_FormInvalidIs422 ==
  call.op = "form_invalid" =>
    /\ result.kind = "HttpResponse"
    /\ result.status_code = 422
    /\ result.kind = call.wrapped.kind
    /\ result.content = call.wrapped.content
    /\ result.headers = call.wrapped.headers
    /\ DOMAIN result = DOMAIN call.wrapped
    /\ trace = <<"super().form_invalid", "response.status_code = 422">>

\* The wrapper element a template response owes around the template output out.
OneWrapperAround(out) ==
  IF result.kind = "TurboStreamTemplateResponse"
  THEN "<turbo-stream action=\"" \o ActionValue(call.action) \o "\" target=\""
         \o call.target \o "\">" \o out \o "</turbo-stream>"
  ELSE "<turbo-frame id=\"" \o Str(call.dom_id) \o "\">" \o out \o "</turbo-frame>"

\* C6: constructing a template response renders no template and applies no wrapper;
\* a body retrieval renders the template first and then wraps that output once, with
\* the action and target (or dom id) given at construction, so a returned body is one
\* wrapper element around the template output; a retrieval whose template render
\* raised returns no body and wraps nothing.
C6_DeferredRenderThenWrap ==
  result.kind \in TemplateKinds =>
    /\ accesses = 0 =>
         /\ template_renders = 0
         /\ wrapper_calls = 0
         /\ trace = <<>>
         /\ body = None
         /\ raised = None
         /\ ~result.is_rendered
         /\ result.content = ""
    /\ (accesses > 0 /\ raised = None) =>
         /\ template_out \in TemplateOutputs
         /\ body = OneWrapperAround(template_out)
    /\ raised # None =>
         /\ body = None
         /\ wrapper_calls = 0
         /\ ~result.is_rendered
         /\ result.content = ""
    /\ trace # <<>> =>
         /\ trace[1] = "super().rendered_content"
         /\ IF raised = None
            THEN /\ Len(trace) = 2
                 /\ trace[2] = (IF result.kind = "TurboStreamTemplateResponse"
                                THEN "render_turbo_stream" ELSE "render_turbo_frame")
            ELSE Len(trace) = 1
    /\ result.is_rendered =>
         \E out \in TemplateOutputs : result.content = OneWrapperAround(out)

C6_Witness ==
  /\ result.kind = "TurboFrameTemplateResponse"
  /\ call.dom_id = "card-7"
  /\ call.context = ("x" :> 1)
  /\ result.context_data
       = [turbo_frame_dom_id |-> "card-7", x |-> 1, is_turbo_frame |-> TRUE]
  /\ accesses = 1
  /\ raised = None
  /\ template_out = "<span>ok</span>"
  /\ body = "<turbo-frame id=\"card-7\"><span>ok</span></turbo-frame>"

\* C7, as claimed: over any sequence of body retrievals on one template response the
\* template is rendered once and the wrapper applied once.
C7_MaterializedOnce ==
  result.kind \in TemplateKinds => (template_renders <= 1 /\ wrapper_calls <= 1)

\* C7, amended: every retrieval of rendered_content renders the template once and,
\* when that render returned, applies the wrapper once; nothing is cached by these
\* classes, so the renders number as many as the retrievals, and so do the wrappings
\* (none at all where the template is None and every render raises).
C7_OneRenderAndWrapPerRetrieval ==
  result.kind \in TemplateKinds =>
    /\ template_renders = accesses
    /\ wrapper_calls = (IF result.template = None THEN 0 ELSE accesses)

C7_Witness ==
  /\ result.kind = "TurboStreamTemplateResponse"
  /\ result.template # None
  /\ accesses = 2
  /\ template_renders = 2
  /\ wrapper_calls = 2

\* C8: a constructed stream response has the content type
\* "text/html; turbo-stream; charset=utf-8" whatever options the caller passed; a
\* frame response gets a content type only from its caller.
C8_StreamContentType ==
  /\ result.kind \in StreamKinds =>
       /\ "content_type" \in DOMAIN result.base_kwargs
       /\ result.base_kwargs["content_type"] = "text/html; turbo-stream; charset=utf-8"
  /\ result.kind \in FrameKinds =>
       /\ ("content_type" \in DOMAIN result.base_kwargs)
            <=> ("content_type" \in DOMAIN call.kwargs)
       /\ "content_type" \in DOMAIN call.kwargs =>
            result.base_kwargs["content_type"] = call.kwargs["content_type"]

C8_Witness ==
  /\ result.kind = "TurboStreamResponse"
  /\ call.kwargs = ("status" :> 201)
  /\ result.base_kwargs
       = [status |-> 201, content_type |-> "text/html; turbo-stream; charset=utf-8"]

\* What the accessors a render method reads resolved to at the call.
CallConfigured ==
  IF call.op \in {"render_turbo_stream_response", "render_turbo_stream_template_response"}
  THEN call.action # None /\ call.target # None
  ELSE call.dom_id # None

\* C9: a render call on a stream or frame mixin returns a response only when the
\* accessors resolved to set values at the call, and ends in an error otherwise; the
\* response carries the action, target or dom id resolved in that call.
C9_RenderedOnlyWhenConfigured ==
  call.op \in MixinRenderOps =>
    /\ result.kind \in ResponseKinds => CallConfigured
    /\ ~CallConfigured => result.kind \in ErrorKinds
    /\ result.kind = "TurboStreamTemplateResponse" =>
         (result._action = call.action /\ result._target = call.target)
    /\ result.kind = "TurboFrameTemplateResponse" => result._dom_id = call.dom_id
    /\ result.kind = "TurboStreamResponse" =>
         result.content = render_turbo_stream(call.action, call.target, call.content)
    /\ result.kind = "TurboFrameResponse" =>
         result.content = render_turbo_frame(call.dom_id, call.content)

\* A render call leaves the handler's action, target and dom id as they were.
RenderKeepsConfiguration ==
  [][call' # call => config' = config]_vars

\* C10: the extra options given to any of the four mixin render methods reach the
\* response the method constructs.
C10_KwargsForwarded ==
  (call.op \in MixinRenderOps /\ result.kind \in ResponseKinds) =>
    \A k \in DOMAIN call.kwargs :
      /\ k \in DOMAIN result.base_kwargs
      /\ result.base_kwargs[k] = call.kwargs[k]

====
